---- MODULE Spec2Model ----
(***************************************************************************)
(* Model of the tourism vector-store DAOs:                                 *)
(*   src/database/tourism_collection_dao.py  TourismMultimodalDAO          *)
(*   src/database/tourism_dao.py             BaiChayTourismDAO             *)
(*                                                                         *)
(* Floating point.  Scores and weights are Python floats in the source.    *)
(* Here a score is an integer number of hundredths (90 is 0.9), a weight   *)
(* an integer number of tenths (7 is 0.7), and a combined score therefore  *)
(* an integer number of thousandths (630 is 0.63).  Products and sums of   *)
(* the modelled values are exact.                                          *)
(***************************************************************************)
EXTENDS Integers, Sequences, FiniteSets, TLC

VARIABLES
    \* ---- hybrid_search (TourismMultimodalDAO) ----
    text_results,      \* list returned by search_by_description
    image_results,     \* list returned by search_by_image
    text_weight,       \* argument text_weight
    image_weight,      \* argument image_weight
    top_k,             \* argument top_k
    merged,            \* the dict `merged`, in insertion order, before sorting
    sorted_results,    \* the returned list
    \* ---- insert_data (both DAOs) ----
    collection,        \* BaiChayTourismDAO.collection
    text_collection,   \* TourismMultimodalDAO.text_collection
    image_collection,  \* TourismMultimodalDAO.image_collection
    dao,               \* the DAO class whose insert_data is called
    data,              \* argument `data` of the insert_data call
    store_fail,        \* the store call of this insert_data that fails, or "none"
    ret,               \* value returned by the insert_data call
    \* ---- search_by_description, search_by_image, hybrid_search ----
    text_hits,         \* the text collection's ranking for the query vector
    image_hits,        \* the image collection's ranking for the query vector
    filters,           \* argument filters
    requests,          \* the Collection.search calls made, in call order
    \* ---- insert_crawled_data.main ----
    pc,                \* where main is: "loop", "statistics", "done", "fatal"
    attempted,         \* the categories whose loop body has been entered
    id_counter,        \* local id_counter
    total_inserted,    \* local total_inserted
    assigned,          \* the ids given to items in this run, in order
    runs,              \* how many times main has been started
    \* ---- connections of pymilvus ----
    connection,        \* the alias "default": connected or not, its database
    instances,         \* the DAO instances constructed, by class
    last_op,           \* the last store operation issued through an instance
    \* ---- all ----
    op,                \* "call" on entry, the operation's name once it has ended
    raised             \* <<exception type, detail>> the operation raised

fuseVars == <<text_results, image_results, text_weight, image_weight, top_k,
              merged, sorted_results>>
daoVars == <<collection, text_collection, image_collection, dao, data,
             store_fail, ret>>
searchVars == <<text_hits, image_hits, filters, requests>>
driverVars == <<pc, attempted, id_counter, total_inserted, assigned, runs>>
connVars == <<connection, instances, last_op>>
vars == <<text_results, image_results, text_weight, image_weight, top_k,
          merged, sorted_results, collection, text_collection,
          image_collection, dao, data, store_fail, ret, text_hits,
          image_hits, filters, requests, pc, attempted, id_counter,
          total_inserted, assigned, runs, connection, instances, last_op,
          op, raised>>

Min(a, b) == IF a <= b THEN a ELSE b
Max(a, b) == IF a >= b THEN a ELSE b

(***************************************************************************)
(* Bounds of the model.                                                    *)
(***************************************************************************)
MaxId == 3        \* entity ids are 1..MaxId
MaxTotal == 3     \* most results of both modalities together; largest top_k

\* No exception left the operation.
NoException == <<"none", "">>
\* A collection: the ids of the rows written to it, in write order, and how
\* many of them a flush has sealed.
EmptyCollection == [rows |-> <<>>, flushed |-> 0]

\* The values the variables of a component hold while another component
\* runs: no search under way, main not started, no DAO constructed.
SearchIdle ==
    /\ text_hits = <<>>
    /\ image_hits = <<>>
    /\ filters = "None"
    /\ requests = <<>>
DriverIdle ==
    /\ pc = "idle"
    /\ attempted = <<>>
    /\ id_counter = 1
    /\ total_inserted = 0
    /\ assigned = <<>>
    /\ runs = 0
ConnIdle ==
    /\ connection = [connected |-> FALSE, db |-> "default"]
    /\ instances = <<>>
    /\ last_op = [instance |-> 0, class |-> "none", kind |-> "none",
                  db |-> "none", live |-> FALSE]
FuseIdle ==
    /\ text_results = <<>>
    /\ image_results = <<>>
    /\ text_weight = 7
    /\ image_weight = 3
    /\ top_k = 10
    /\ merged = <<>>
    /\ sorted_results = <<>>
DaoIdle ==
    /\ collection = EmptyCollection
    /\ text_collection = EmptyCollection
    /\ image_collection = EmptyCollection
    /\ dao = "TourismMultimodalDAO"
    /\ data = <<>>
    /\ store_fail = "none"
    /\ ret = <<>>

(***************************************************************************)
(* hybrid_search: the merge of the two result lists.                       *)
(* A search result is [id, score]; every display attribute of a result     *)
(* (location, type, description, image_url, price, distance) travels with  *)
(* the result it belongs to and is summarised by `attrs`, the list the     *)
(* result came from.                                                       *)
(***************************************************************************)

\* Position of key `id` in the dict (0 when absent): `result_id in merged`.
IndexOf(m, id) ==
    IF \E i \in 1..Len(m) : m[i].id = id
    THEN CHOOSE i \in 1..Len(m) : m[i].id = id
    ELSE 0

\* Variant: the text weight is left out of combined_score.
TextEntryUnweighted(result, tw) ==
    [id |-> result.id, score |-> result.score, attrs |-> "text",
     text_score |-> result.score, image_score |-> 0,
     combined_score |-> result.score]

\* merged[result_id] = {**result, "text_score": ..., "image_score": 0, ...}
TextEntry(result, tw) ==
    [id |-> result.id, score |-> result.score, attrs |-> "text",
     text_score |-> result.score, image_score |-> 0,
     combined_score |-> result.score * tw]

\* Assigning to a key already in a dict keeps the key's position.
DictSet(m, id, e) ==
    IF IndexOf(m, id) = 0 THEN Append(m, e)
    ELSE [m EXCEPT ![IndexOf(m, id)] = e]

\* for result in text_results: ...
RECURSIVE TextPass(_, _, _)
TextPass(results, tw, m) ==
    IF results = <<>> THEN m
    ELSE TextPass(Tail(results), tw,
                  DictSet(m, Head(results).id, TextEntry(Head(results), tw)))

\* Variant: the image weight is left out of combined_score.
ImageStepUnweighted(m, result, iw) ==
    LET i == IndexOf(m, result.id) IN
    IF i # 0
    THEN [m EXCEPT ![i].image_score = result.score,
                   ![i].combined_score = m[i].combined_score + result.score]
    ELSE Append(m, [id |-> result.id, score |-> result.score,
                    attrs |-> "image", text_score |-> 0,
                    image_score |-> result.score,
                    combined_score |-> result.score])

\* Variant: an id only the image list has is skipped when its weight is 0.
ImageStepDropsNew(m, result, iw) ==
    LET i == IndexOf(m, result.id) IN
    IF i # 0
    THEN [m EXCEPT ![i].image_score = result.score,
                   ![i].combined_score = m[i].combined_score + result.score * iw]
    ELSE IF iw = 0 THEN m
    ELSE Append(m, [id |-> result.id, score |-> result.score,
                    attrs |-> "image", text_score |-> 0,
                    image_score |-> result.score,
                    combined_score |-> result.score * iw])

\* The body of `for result in image_results`: an id already in the dict (put
\* there by the text loop or by an earlier image result) gets image_score
\* replaced and score * image_weight added; a new id gets its own entry.
ImageStep(m, result, iw) ==
    LET i == IndexOf(m, result.id) IN
    IF i # 0
    THEN [m EXCEPT ![i].image_score = result.score,
                   ![i].combined_score = m[i].combined_score + result.score * iw]
    ELSE Append(m, [id |-> result.id, score |-> result.score,
                    attrs |-> "image", text_score |-> 0,
                    image_score |-> result.score,
                    combined_score |-> result.score * iw])

RECURSIVE ImagePass(_, _, _)
ImagePass(results, iw, m) ==
    IF results = <<>> THEN m
    ELSE ImagePass(Tail(results), iw, ImageStep(m, Head(results), iw))

\* merged = {} followed by the two loops.
Merge(text, image, tw, iw) == ImagePass(image, iw, TextPass(text, tw, <<>>))

\* Variant: an entry goes in front of the entries of equal key.
InsertUnstable(s, e) ==
    LET n == Cardinality({i \in 1..Len(s) : s[i].combined_score > e.combined_score})
    IN SubSeq(s, 1, n) \o <<e>> \o SubSeq(s, n + 1, Len(s))

\* sorted(..., key=combined_score, reverse=True): a stable sort, so an entry
\* goes behind every entry already placed whose key is not smaller.
InsertDesc(s, e) ==
    LET n == Cardinality({i \in 1..Len(s) : s[i].combined_score >= e.combined_score})
    IN SubSeq(s, 1, n) \o <<e>> \o SubSeq(s, n + 1, Len(s))

RECURSIVE SortFrom(_, _)
SortFrom(m, acc) ==
    IF m = <<>> THEN acc ELSE SortFrom(Tail(m), InsertDesc(acc, Head(m)))

SortedByCombined(m) == SortFrom(m, <<>>)

\* Variant: no truncation.
SliceNone(s, k) == s

\* The slice s[:k].
Slice(s, k) ==
    IF k >= 0 THEN SubSeq(s, 1, Min(k, Len(s)))
    ELSE SubSeq(s, 1, Max(0, Len(s) + k))

\* Lines 282-312 of hybrid_search: merge, sort, truncate.
Fuse(text, image, tw, iw, k) ==
    Slice(SortedByCombined(Merge(text, image, tw, iw)), k)

(***************************************************************************)
(* Inputs of the merge.  What the two searches return is decided by the    *)
(* store; the merge is applied to every pair of lists within the bounds,   *)
(* lists with a repeated id included, and to the two scenarios the         *)
(* specification spells out.                                               *)
(***************************************************************************)
Scores == {40, 80}
TextWeights == {-1, 0, 7}
ImageWeights == {-1, 0, 7}
Results == [id : 1..MaxId, score : Scores]
ResultLists(n) == UNION {[1..l -> Results] : l \in 0..n}
ListPairs ==
    UNION {[text : ResultLists(n), image : ResultLists(MaxTotal - n)] :
           n \in 0..MaxTotal}

Scenario9 ==
    [text |-> <<[id |-> 1, score |-> 90], [id |-> 2, score |-> 40]>>,
     image |-> <<[id |-> 2, score |-> 80], [id |-> 3, score |-> 95]>>,
     tw |-> 7, iw |-> 3, k |-> 3]

Scenario10 ==
    [text |-> <<>>, image |-> <<[id |-> 5, score |-> 50]>>,
     tw |-> 7, iw |-> 3, k |-> 1]

Scenarios == {Scenario9, Scenario10}

(***************************************************************************)
(* The merge as a function of its inputs: a call is entered with the two   *)
(* result lists, the weights and top_k, and hybrid_search runs it to its   *)
(* return.                                                                 *)
(***************************************************************************)
InitFuse ==
    /\ \/ \E p \in ListPairs, tw \in TextWeights, iw \in ImageWeights,
              k \in 0..MaxTotal :
              /\ text_results = p.text
              /\ image_results = p.image
              /\ text_weight = tw
              /\ image_weight = iw
              /\ top_k = k
       \/ \E inp \in Scenarios :
              /\ text_results = inp.text
              /\ image_results = inp.image
              /\ text_weight = inp.tw
              /\ image_weight = inp.iw
              /\ top_k = inp.k
    /\ merged = <<>>
    /\ sorted_results = <<>>
    /\ collection = EmptyCollection
    /\ text_collection = EmptyCollection
    /\ image_collection = EmptyCollection
    /\ dao = "TourismMultimodalDAO"
    /\ data = <<>>
    /\ store_fail = "none"
    /\ ret = <<>>
    /\ op = "call"
    /\ raised = NoException
    /\ SearchIdle
    /\ DriverIdle
    /\ ConnIdle

\* hybrid_search from the point where both searches have returned.
hybrid_search ==
    /\ op = "call"
    /\ merged' = Merge(text_results, image_results, text_weight, image_weight)
    /\ sorted_results' =
           Fuse(text_results, image_results, text_weight, image_weight, top_k)
    /\ op' = "hybrid_search"
    /\ raised' = NoException
    /\ UNCHANGED <<text_results, image_results, text_weight, image_weight, top_k>>
    /\ UNCHANGED daoVars
    /\ UNCHANGED <<searchVars, driverVars, connVars>>

NextFuse == hybrid_search

SpecFuse == InitFuse /\ [][NextFuse]_vars

(***************************************************************************)
(* insert_data of both DAOs.                                               *)
(* An item of a batch is a dict: `keys` are the keys it has, `id` its id   *)
(* (when it has one), `dvlen` and `ivlen` the lengths of its               *)
(* description_vector and image_vector (0 when it lacks the key).          *)
(* assert statements are taken as executed (Python run without -O).        *)
(***************************************************************************)
DESCRIPTION_VECTOR_DIM == 768
IMAGE_VECTOR_DIM == 512
MaxBatch == 2     \* most items of one batch
MaxRows == 1      \* most rows a collection holds before the call

BaiChayRequired == <<"id", "name", "type", "description", "description_vector">>
MultimodalRequired ==
    <<"id", "location", "type", "description", "image_url", "price",
      "image_vector", "description_vector">>
BaiChayOptional ==
    {"sub_type", "location", "address", "price_range", "price_min",
     "price_max", "opening_hours", "image_urls", "rating", "view_count", "url"}

Range(f) == {f[i] : i \in DOMAIN f}

\* The first of `fields` the item lacks, "" when it has them all:
\*     for field in required_fields: assert field in item, f"Missing '{field}'"
FirstMissing(item, fields) ==
    IF \E i \in 1..Len(fields) : fields[i] \notin item.keys
    THEN fields[CHOOSE i \in 1..Len(fields) :
                    /\ fields[i] \notin item.keys
                    /\ \A j \in 1..(i - 1) : fields[j] \in item.keys]
    ELSE ""

\* The assertions on one item of BaiChayTourismDAO.insert_data.
BaiChayItemError(item) ==
    IF FirstMissing(item, BaiChayRequired) # ""
    THEN <<"AssertionError", FirstMissing(item, BaiChayRequired)>>
    ELSE IF item.dvlen # DESCRIPTION_VECTOR_DIM
    THEN <<"AssertionError", "">>
    ELSE NoException

\* The assertions on one item of TourismMultimodalDAO.insert_data.
MultimodalItemError(item) ==
    IF FirstMissing(item, MultimodalRequired) # ""
    THEN <<"AssertionError", FirstMissing(item, MultimodalRequired)>>
    ELSE IF item.ivlen # IMAGE_VECTOR_DIM
    THEN <<"AssertionError", "">>
    ELSE IF item.dvlen # DESCRIPTION_VECTOR_DIM
    THEN <<"AssertionError", "">>
    ELSE NoException

RECURSIVE BaiChayValidate(_)
\* Variant: only the first item of the batch is validated.
BaiChayValidateFirstOnly(items) ==
    IF items = <<>> THEN NoException ELSE BaiChayItemError(Head(items))

\* for item in data: ... -- the first assertion that fails ends the loop.
BaiChayValidate(items) ==
    IF items = <<>> THEN NoException
    ELSE IF BaiChayItemError(Head(items)) # NoException
    THEN BaiChayItemError(Head(items))
    ELSE BaiChayValidate(Tail(items))

RECURSIVE MultimodalValidate(_)
MultimodalValidate(items) ==
    IF items = <<>> THEN NoException
    ELSE IF MultimodalItemError(Head(items)) # NoException
    THEN MultimodalItemError(Head(items))
    ELSE MultimodalValidate(Tail(items))

\* [item["id"] for item in data]
IdColumn(items) == [i \in 1..Len(items) |-> items[i].id]

\* Collection.insert(entities): the rows are appended; the result's
\* primary_keys are the id column.  Collection.flush() seals what is written.
StoreInsert(c, ids) == [c EXCEPT !.rows = c.rows \o ids]
\* Variant: the flush is left out.
StoreFlushNone(c) == c

StoreFlush(c) == [c EXCEPT !.flushed = Len(c.rows)]
StoreError(call) == <<"MilvusException", call>>

\* BaiChayTourismDAO.insert_data: validate, build the columns, insert,
\* flush, return the primary keys; the except clause logs and re-raises.
insert_data_BaiChay ==
    /\ op = "call"
    /\ dao = "BaiChayTourismDAO"
    /\ op' = "insert_data"
    /\ LET err == BaiChayValidate(data)
           ids == IdColumn(data)
       IN
       IF err # NoException THEN
           /\ raised' = err
           /\ ret' = <<>>
           /\ UNCHANGED collection
       ELSE IF store_fail = "insert" THEN
           /\ raised' = StoreError("insert")
           /\ ret' = <<>>
           /\ UNCHANGED collection
       ELSE IF store_fail = "flush" THEN
           /\ raised' = StoreError("flush")
           /\ ret' = <<>>
           /\ collection' = StoreInsert(collection, ids)
       ELSE
           /\ raised' = NoException
           /\ ret' = ids
           /\ collection' = StoreFlush(StoreInsert(collection, ids))
    /\ UNCHANGED <<text_collection, image_collection, dao, data, store_fail>>
    /\ UNCHANGED fuseVars
    /\ UNCHANGED <<searchVars, driverVars, connVars>>

\* TourismMultimodalDAO.insert_data: validate, build the columns, insert
\* and flush the text collection, insert and flush the image collection,
\* return both lists of primary keys; the except clause logs and re-raises.
insert_data_Multimodal ==
    /\ op = "call"
    /\ dao = "TourismMultimodalDAO"
    /\ op' = "insert_data"
    /\ LET err == MultimodalValidate(data)
           ids == IdColumn(data)
       IN
       IF err # NoException THEN
           /\ raised' = err
           /\ ret' = <<>>
           /\ UNCHANGED <<text_collection, image_collection>>
       ELSE IF store_fail = "text_insert" THEN
           /\ raised' = StoreError("text_insert")
           /\ ret' = <<>>
           /\ UNCHANGED <<text_collection, image_collection>>
       ELSE IF store_fail = "text_flush" THEN
           /\ raised' = StoreError("text_flush")
           /\ ret' = <<>>
           /\ text_collection' = StoreInsert(text_collection, ids)
           /\ UNCHANGED image_collection
       ELSE IF store_fail = "image_insert" THEN
           /\ raised' = StoreError("image_insert")
           /\ ret' = <<>>
           /\ text_collection' = StoreFlush(StoreInsert(text_collection, ids))
           /\ UNCHANGED image_collection
       ELSE IF store_fail = "image_flush" THEN
           /\ raised' = StoreError("image_flush")
           /\ ret' = <<>>
           /\ text_collection' = StoreFlush(StoreInsert(text_collection, ids))
           /\ image_collection' = StoreInsert(image_collection, ids)
       ELSE
           /\ raised' = NoException
           /\ ret' = <<ids, ids>>
           /\ text_collection' = StoreFlush(StoreInsert(text_collection, ids))
           /\ image_collection' = StoreFlush(StoreInsert(image_collection, ids))
    /\ UNCHANGED <<collection, dao, data, store_fail>>
    /\ UNCHANGED fuseVars
    /\ UNCHANGED <<searchVars, driverVars, connVars>>

(***************************************************************************)
(* Inputs of insert_data: batches of at most MaxBatch items, each item     *)
(* complete, or lacking one or two required keys, or carrying a vector of  *)
(* the wrong length; the store call that fails, if one does; and the       *)
(* rows the collections hold when the call is made.                        *)
(***************************************************************************)
ItemIds == {1, 2}

Item(keys, id, dv, iv) ==
    [keys |-> keys,
     id |-> IF "id" \in keys THEN id ELSE 0,
     dvlen |-> IF "description_vector" \in keys THEN dv ELSE 0,
     ivlen |-> IF "image_vector" \in keys THEN iv ELSE 0]

BaiChayItems ==
    {Item(Range(BaiChayRequired) \ miss, i, dv, 0) :
        miss \in {{}} \cup {{f} : f \in Range(BaiChayRequired)}
                  \cup {{"name", "description_vector"}},
        i \in ItemIds,
        dv \in {DESCRIPTION_VECTOR_DIM}}
    \cup {Item(Range(BaiChayRequired), i, dv, 0) :
        i \in ItemIds,
        dv \in {DESCRIPTION_VECTOR_DIM - 1, DESCRIPTION_VECTOR_DIM + 1}}
    \cup {Item(Range(BaiChayRequired) \cup BaiChayOptional, i,
               DESCRIPTION_VECTOR_DIM, 0) : i \in ItemIds}

MultimodalItems ==
    {Item(Range(MultimodalRequired) \ miss, i, DESCRIPTION_VECTOR_DIM,
          IMAGE_VECTOR_DIM) :
        miss \in {{}} \cup {{f} : f \in Range(MultimodalRequired)}
                  \cup {{"location", "image_vector"}},
        i \in ItemIds}
    \cup {Item(Range(MultimodalRequired), i, dv, iv) :
        i \in ItemIds,
        dv \in {DESCRIPTION_VECTOR_DIM, DESCRIPTION_VECTOR_DIM + 1},
        iv \in {IMAGE_VECTOR_DIM, IMAGE_VECTOR_DIM - 1}}

Batches(items) == UNION {[1..n -> items] : n \in 0..MaxBatch}
StoredRows == UNION {[1..n -> ItemIds] : n \in 0..MaxRows}
Stored(rows) == [rows |-> rows, flushed |-> Len(rows)]

\* One insert_data call, entered with its batch, on collections that
\* earlier successful calls have filled.
InitInsert ==
    /\ \/ /\ dao = "BaiChayTourismDAO"
          /\ data \in Batches(BaiChayItems)
          /\ store_fail \in {"none", "insert", "flush"}
          /\ \E rows \in StoredRows : collection = Stored(rows)
          /\ text_collection = EmptyCollection
          /\ image_collection = EmptyCollection
       \/ /\ dao = "TourismMultimodalDAO"
          /\ data \in Batches(MultimodalItems)
          /\ store_fail \in {"none", "text_insert", "text_flush",
                             "image_insert", "image_flush"}
          /\ collection = EmptyCollection
          /\ \E rows \in StoredRows :
                 /\ text_collection = Stored(rows)
                 /\ image_collection = Stored(rows)
    /\ ret = <<>>
    /\ op = "call"
    /\ raised = NoException
    /\ SearchIdle
    /\ DriverIdle
    /\ ConnIdle
    /\ text_results = <<>>
    /\ image_results = <<>>
    /\ text_weight = 7
    /\ image_weight = 3
    /\ top_k = 10
    /\ merged = <<>>
    /\ sorted_results = <<>>

NextInsert == insert_data_BaiChay \/ insert_data_Multimodal

SpecInsert == InitInsert /\ [][NextInsert]_vars

(***************************************************************************)
(* insert_data of BaiChayTourismDAO on items that carry the optional       *)
(* price_min, price_max and rating keys (read with item.get and written    *)
(* to the price_min, price_max and rating columns).  Every item is         *)
(* complete and has a description_vector of the right length.              *)
(***************************************************************************)
PricedItems ==
    {Item(Range(BaiChayRequired) \cup {"price_min", "price_max", "rating"},
          i, DESCRIPTION_VECTOR_DIM, 0)
       @@ [price_min |-> p[1], price_max |-> p[2], rating |-> r] :
        i \in ItemIds,
        p \in {<<0, 0>>, <<50, 100>>, <<100, 50>>},
        r \in {-1, 0, 5, 6}}

InitInsertPriced ==
    /\ dao = "BaiChayTourismDAO"
    /\ data \in Batches(PricedItems)
    /\ store_fail \in {"none", "insert", "flush"}
    /\ \E rows \in StoredRows : collection = Stored(rows)
    /\ text_collection = EmptyCollection
    /\ image_collection = EmptyCollection
    /\ ret = <<>>
    /\ op = "call"
    /\ raised = NoException
    /\ SearchIdle
    /\ DriverIdle
    /\ ConnIdle
    /\ text_results = <<>>
    /\ image_results = <<>>
    /\ text_weight = 7
    /\ image_weight = 3
    /\ top_k = 10
    /\ merged = <<>>
    /\ sorted_results = <<>>

NextInsertPriced == insert_data_BaiChay

SpecInsertPriced == InitInsertPriced /\ [][NextInsertPriced]_vars

(***************************************************************************)
(* search_by_description, search_by_image and hybrid_search against the    *)
(* store.                                                                  *)
(* A hit is [id, distance]: the entity found and the value the store       *)
(* reports as hit.distance, in whole units.  For the metric COSINE that    *)
(* value is the cosine similarity of the two vectors, between -1 and 1,    *)
(* the most similar hit first; for L2 it is a distance of 0 or more, the   *)
(* nearest hit first.  text_hits and image_hits are all the hits of the    *)
(* two collections for the query vectors, in the store's order.            *)
(* A score of this part is an integer number of sixtieths (ScoreUnit is    *)
(* 1.0), so that 1 / (1 + distance) is exact for every distance used.      *)
(***************************************************************************)
ScoreUnit == 60
CosineDistances == {-1, 0, 1}
L2Distances == {0, 1, 2}
TopKs == {1, 2}
\* The argument filters: None, or a boolean expression over the fields.
FilterExprs == {"None", "id >= 2"}

Matches(expr, hit) == IF expr = "None" THEN TRUE ELSE hit.id >= 2

ZeroDivisionError == <<"ZeroDivisionError", "division by zero">>

TextRequest(k, f) ==
    [collection |-> "text_collection", anns_field |-> "description_vector",
     metric_type |-> "COSINE", limit |-> k, expr |-> f]

ImageRequest(k, f) ==
    [collection |-> "image_collection", anns_field |-> "image_vector",
     metric_type |-> "L2", limit |-> k, expr |-> f]

\* Collection.search: the first `limit` hits that satisfy expr.
StoreSearch(hits, req) ==
    LET found == SelectSeq(hits, LAMBDA h : Matches(req.expr, h))
    IN SubSeq(found, 1, Min(req.limit, Len(found)))

\* "score": 1 / (1 + hit.distance)
Score(distance) == ScoreUnit \div (1 + distance)

\* _format_results raises at the first hit whose 1 + distance is 0.
FormatRaises(hits) == \E i \in 1..Len(hits) : 1 + hits[i].distance = 0

_format_results(hits) ==
    [i \in 1..Len(hits) |->
        [id |-> hits[i].id, score |-> Score(hits[i].distance)]]

\* Variant: as many candidates as results.
CandidateLimitK(k) == k

\* top_k * 2, the limit hybrid_search passes to both searches.
CandidateLimit(k) == k * 2

search_by_description ==
    /\ op = "call"
    /\ LET req == TextRequest(top_k, filters)
           found == StoreSearch(text_hits, req)
       IN /\ requests' = <<req>>
          /\ IF FormatRaises(found)
             THEN /\ raised' = ZeroDivisionError
                  /\ text_results' = text_results
             ELSE /\ raised' = NoException
                  /\ text_results' = _format_results(found)
    /\ op' = "search_by_description"
    /\ UNCHANGED <<image_results, text_weight, image_weight, top_k, merged,
                   sorted_results, text_hits, image_hits, filters>>
    /\ UNCHANGED <<daoVars, driverVars, connVars>>

search_by_image ==
    /\ op = "call"
    /\ LET req == ImageRequest(top_k, filters)
           found == StoreSearch(image_hits, req)
       IN /\ requests' = <<req>>
          /\ IF FormatRaises(found)
             THEN /\ raised' = ZeroDivisionError
                  /\ image_results' = image_results
             ELSE /\ raised' = NoException
                  /\ image_results' = _format_results(found)
    /\ op' = "search_by_image"
    /\ UNCHANGED <<text_results, text_weight, image_weight, top_k, merged,
                   sorted_results, text_hits, image_hits, filters>>
    /\ UNCHANGED <<daoVars, driverVars, connVars>>

\* hybrid_search from its call to its return: the two searches, then the
\* merge.  An exception of the first search leaves before the second.
hybrid_search_call ==
    /\ op = "call"
    /\ LET treq == TextRequest(CandidateLimit(top_k), filters)
           tfound == StoreSearch(text_hits, treq)
           ireq == ImageRequest(CandidateLimit(top_k), filters)
           ifound == StoreSearch(image_hits, ireq)
           text == _format_results(tfound)
           image == _format_results(ifound)
       IN IF FormatRaises(tfound)
          THEN /\ requests' = <<treq>>
               /\ raised' = ZeroDivisionError
               /\ UNCHANGED <<text_results, image_results, merged,
                              sorted_results>>
          ELSE IF FormatRaises(ifound)
          THEN /\ requests' = <<treq, ireq>>
               /\ raised' = ZeroDivisionError
               /\ text_results' = text
               /\ UNCHANGED <<image_results, merged, sorted_results>>
          ELSE /\ requests' = <<treq, ireq>>
               /\ raised' = NoException
               /\ text_results' = text
               /\ image_results' = image
               /\ merged' = Merge(text, image, text_weight, image_weight)
               /\ sorted_results' =
                      Fuse(text, image, text_weight, image_weight, top_k)
    /\ op' = "hybrid_search"
    /\ UNCHANGED <<text_weight, image_weight, top_k, text_hits, image_hits,
                   filters>>
    /\ UNCHANGED <<daoVars, driverVars, connVars>>

\* The rankings a store can report: most similar first for COSINE, nearest
\* first for L2.
Hits(distances) == [id : 1..MaxId, distance : distances]
HitLists(distances, n) == UNION {[1..l -> Hits(distances)] : l \in 0..n}
MostSimilarFirst(h) ==
    \A i \in 1..Len(h) - 1 : h[i].distance >= h[i + 1].distance
NearestFirst(h) ==
    \A i \in 1..Len(h) - 1 : h[i].distance <= h[i + 1].distance

InitSearch ==
    /\ \E n \in 0..MaxTotal :
           /\ text_hits \in HitLists(CosineDistances, n)
           /\ image_hits \in HitLists(L2Distances, MaxTotal - n)
    /\ MostSimilarFirst(text_hits)
    /\ NearestFirst(image_hits)
    /\ top_k \in TopKs
    /\ filters \in FilterExprs
    /\ requests = <<>>
    /\ text_results = <<>>
    /\ image_results = <<>>
    /\ text_weight = 7
    /\ image_weight = 3
    /\ merged = <<>>
    /\ sorted_results = <<>>
    /\ DaoIdle
    /\ DriverIdle
    /\ ConnIdle
    /\ op = "call"
    /\ raised = NoException

NextSearch == search_by_description \/ search_by_image \/ hybrid_search_call

SpecSearch == InitSearch /\ [][NextSearch]_vars

(***************************************************************************)
(* insert_crawled_data.main, the ingestion driver.                         *)
(* One step of the loop is the whole body for one category: the crawl, the *)
(* id assignment, dao.insert_data, the JSON backup and the except clause.  *)
(* What crawl_category returns is decided outside this code: it raises,    *)
(* returns nothing, or returns 1..MaxItems items, complete or with the     *)
(* first item lacking its description_vector.  The collection is the one   *)
(* of BaiChayTourismDAO and outlives a run.                                *)
(***************************************************************************)
MaxItems == 1     \* most items one crawl_category call returns
MaxRuns == 2      \* most runs of main against the same store

CATEGORIES_TO_CRAWL ==
    <<"diem-den", "luu-tru", "tour", "nha-hang", "am-thuc", "du-thuyen">>

CaughtError(step) == <<"Exception", step>>

\* The items of one category after lines 64-66: the k-th item has the id
\* id_counter + k - 1.
CrawledItems(n, complete, first_id) ==
    [k \in 1..n |->
        Item(IF k = 1 /\ ~complete
             THEN Range(BaiChayRequired) \ {"description_vector"}
             ELSE Range(BaiChayRequired),
             first_id + k - 1, DESCRIPTION_VECTOR_DIM, 0)]

\* Where main goes after the body of the n-th category: the next
\* iteration, or past the loop.
NextPc(n) == IF n < Len(CATEGORIES_TO_CRAWL) THEN "loop" ELSE "statistics"

\* Variant: the exception leaves the loop for the outer except clause.
OnCategoryErrorAbort(n) == "fatal"

\* except Exception ... continue
OnCategoryError(n) == NextPc(n)

StartMain ==
    /\ runs' = runs + 1
    /\ attempted' = <<>>
    /\ assigned' = <<>>
    /\ \/ /\ pc' = "loop"
          /\ raised' = NoException
       \/ /\ pc' = "fatal"
          /\ raised' = CaughtError("BaiChayTourismDAO")
    /\ total_inserted' = 0
    /\ id_counter' = 1
    /\ op' = "main"
    /\ UNCHANGED <<fuseVars, daoVars, searchVars, connVars>>

\* main is started on a store no run has written to.
main ==
    /\ pc = "idle"
    /\ StartMain

\* main is started again, on the store the earlier runs have left.
main_again ==
    /\ pc \in {"done", "fatal"}
    /\ runs < MaxRuns
    /\ StartMain

process_category ==
    /\ pc = "loop"
    /\ Len(attempted) < Len(CATEGORIES_TO_CRAWL)
    /\ attempted' = Append(attempted, CATEGORIES_TO_CRAWL[Len(attempted) + 1])
    /\ \/ \* crawl_category raises
          /\ raised' = CaughtError("crawl_category")
          /\ pc' = OnCategoryError(Len(attempted'))
          /\ UNCHANGED <<id_counter, assigned, total_inserted, collection>>
       \/ \* if not items: continue
          /\ raised' = NoException
          /\ pc' = NextPc(Len(attempted'))
          /\ UNCHANGED <<id_counter, assigned, total_inserted, collection>>
       \/ \E n \in 1..MaxItems, complete \in BOOLEAN,
             fail \in {"none", "insert", "flush", "backup"} :
             LET items == CrawledItems(n, complete, id_counter)
                 ids == IdColumn(items)
                 err == BaiChayValidate(items)
             IN /\ id_counter' = id_counter + n
                /\ assigned' = assigned \o ids
                /\ IF err # NoException THEN
                       /\ raised' = err
                       /\ pc' = OnCategoryError(Len(attempted'))
                       /\ UNCHANGED <<total_inserted, collection>>
                   ELSE IF fail = "insert" THEN
                       /\ raised' = StoreError("insert")
                       /\ pc' = OnCategoryError(Len(attempted'))
                       /\ UNCHANGED <<total_inserted, collection>>
                   ELSE IF fail = "flush" THEN
                       /\ raised' = StoreError("flush")
                       /\ pc' = OnCategoryError(Len(attempted'))
                       /\ collection' = StoreInsert(collection, ids)
                       /\ UNCHANGED total_inserted
                   ELSE
                       /\ collection' = StoreFlush(StoreInsert(collection, ids))
                       /\ total_inserted' = total_inserted + Len(ids)
                       /\ IF fail = "backup"
                          THEN /\ raised' = CaughtError("backup")
                               /\ pc' = OnCategoryError(Len(attempted'))
                          ELSE /\ raised' = NoException
                               /\ pc' = NextPc(Len(attempted'))
    /\ UNCHANGED <<runs, op>>
    /\ UNCHANGED <<text_collection, image_collection, dao, data, store_fail,
                   ret>>
    /\ UNCHANGED <<fuseVars, searchVars, connVars>>

\* Step 4 and the test searches: an exception of dao.get_statistics or of
\* a search reaches the outer except clause.
final_statistics ==
    /\ pc = "statistics"
    /\ \/ /\ pc' = "done"
          /\ raised' = NoException
       \/ /\ pc' = "fatal"
          /\ raised' = CaughtError("get_statistics")
    /\ UNCHANGED <<attempted, id_counter, total_inserted, assigned, runs, op>>
    /\ UNCHANGED <<fuseVars, daoVars, searchVars, connVars>>

InitDriver ==
    /\ DriverIdle
    /\ FuseIdle
    /\ SearchIdle
    /\ ConnIdle
    /\ collection = EmptyCollection
    /\ text_collection = EmptyCollection
    /\ image_collection = EmptyCollection
    /\ dao = "BaiChayTourismDAO"
    /\ data = <<>>
    /\ store_fail = "none"
    /\ ret = <<>>
    /\ op = "call"
    /\ raised = NoException

\* One run of main.
NextDriver == main \/ process_category \/ final_statistics

SpecDriver == InitDriver /\ [][NextDriver]_vars

\* main runs each statement it reaches: a run that can take a step takes it.
FairSpecDriver == SpecDriver /\ WF_vars(NextDriver)

\* Runs of main one after the other against the same store.
NextDriverRuns == main \/ main_again \/ process_category \/ final_statistics

SpecDriverRuns == InitDriver /\ [][NextDriverRuns]_vars

(***************************************************************************)
(* The connection of the DAOs.                                             *)
(* Both classes connect under the alias "default" and create their         *)
(* Collection objects without naming a connection, so every store          *)
(* operation of every instance goes through whatever connection the alias  *)
(* "default" names when the operation is issued, against the database      *)
(* that connection is using.                                               *)
(***************************************************************************)
MaxInstances == 3     \* most DAO instances constructed in one process

DaoClasses == {"BaiChayTourismDAO", "TourismMultimodalDAO"}

DATABASE_NAME(class) ==
    IF class = "BaiChayTourismDAO" THEN "bai_chay_tourism_db"
    ELSE "du_lich_db"

\* Methods of both classes that call the store.
StoreOps == {"insert_data", "search_by_description", "get_statistics"}

\* connections.connect(alias="default", ...): a new connection, on the
\* store's default database.
Connected == [connected |-> TRUE, db |-> "default"]

\* db.using_database(name)
UsingDatabase(conn, name) == [conn EXCEPT !.db = name]

\* __init__ of either class, with the store reachable: connect (disconnect
\* "default", connect it again), switch_database, then the collections are
\* created or loaded.
__init__ ==
    /\ Len(instances) < MaxInstances
    /\ \E class \in DaoClasses :
           /\ connection' = UsingDatabase(Connected, DATABASE_NAME(class))
           /\ instances' = Append(instances, class)
           /\ last_op' = [instance |-> Len(instances) + 1,
                          class |-> class, kind |-> "load",
                          db |-> DATABASE_NAME(class), live |-> TRUE]
    /\ raised' = NoException
    /\ op' = "__init__"
    /\ UNCHANGED <<fuseVars, daoVars, searchVars, driverVars>>

\* A method of an instance constructed earlier calls the store through its
\* Collection object.
store_operation ==
    /\ \E i \in 1..Len(instances), kind \in StoreOps :
           IF connection.connected
           THEN /\ last_op' = [instance |-> i, class |-> instances[i],
                               kind |-> kind, db |-> connection.db,
                               live |-> TRUE]
                /\ raised' = IF connection.db = DATABASE_NAME(instances[i])
                             THEN NoException
                             ELSE StoreError("collection not found")
           ELSE /\ last_op' = [instance |-> i, class |-> instances[i],
                               kind |-> kind, db |-> "none", live |-> FALSE]
                /\ raised' = <<"ConnectionNotExistException", "default">>
    /\ op' = "store_operation"
    /\ UNCHANGED <<connection, instances>>
    /\ UNCHANGED <<fuseVars, daoVars, searchVars, driverVars>>

InitConn ==
    /\ ConnIdle
    /\ FuseIdle
    /\ DaoIdle
    /\ SearchIdle
    /\ DriverIdle
    /\ op = "call"
    /\ raised = NoException

NextConn == __init__ \/ store_operation

SpecConn == InitConn /\ [][NextConn]_vars

(***************************************************************************)
(* Vocabulary of the properties of the merge.  None of it uses the         *)
(* operators above: it speaks of the input lists and of the result only.   *)
(***************************************************************************)
Fused == op = "hybrid_search"

IdsOf(L) == {L[i].id : i \in 1..Len(L)}
IdSeq(L) == [i \in 1..Len(L) |-> L[i].id]
ScoresOf(L, id) == {L[i].score : i \in {j \in 1..Len(L) : L[j].id = id}}
FirstPos(L, id) == CHOOSE i \in 1..Len(L) :
    L[i].id = id /\ \A j \in 1..(i - 1) : L[j].id # id
LastPos(L, id) == CHOOSE i \in 1..Len(L) :
    L[i].id = id /\ \A j \in (i + 1)..Len(L) : L[j].id # id
\* The score the last occurrence of id in L carries; 0 when L lacks id.
LastScore(L, id) == IF id \in IdsOf(L) THEN L[LastPos(L, id)].score ELSE 0
EntriesFor(m, id) == {i \in 1..Len(m) : m[i].id = id}
EntryFor(m, id) == m[CHOOSE i \in 1..Len(m) : m[i].id = id]
AllIds == IdsOf(text_results) \cup IdsOf(image_results)
\* Weights the specification accepts (zero included).
ValidWeights == text_weight >= 0 /\ image_weight >= 0
HasDuplicate(L) == Len(L) # Cardinality(IdsOf(L))

\* Rank at which an id first enters the mapping: the text list's ids in
\* the order of their first occurrence, then the ids only the image list
\* has, in the order of their first occurrence there.
InsertionRank(id) ==
    IF id \in IdsOf(text_results) THEN FirstPos(text_results, id)
    ELSE Len(text_results) + FirstPos(image_results, id)

\* The ranking of one list alone under weight w: its ids by weighted score
\* (of the last occurrence) descending, equal scores in list order.
Precedes(L, w, a, b) ==
    \/ LastScore(L, a) * w > LastScore(L, b) * w
    \/ /\ LastScore(L, a) * w = LastScore(L, b) * w
       /\ FirstPos(L, a) < FirstPos(L, b)
RankingOf(L, w) ==
    [i \in 1..Cardinality(IdsOf(L)) |->
        CHOOSE a \in IdsOf(L) :
            Cardinality({b \in IdsOf(L) : Precedes(L, w, b, a)}) = i - 1]
Prefix(s, n) == SubSeq(s, 1, Min(n, Len(s)))
IsPrefix(s, t) == Len(s) <= Len(t) /\ s = SubSeq(t, 1, Len(s))
RECURSIVE Restrict(_, _)
Restrict(s, S) ==
    IF s = <<>> THEN <<>>
    ELSE IF Head(s) \in S THEN <<Head(s)>> \o Restrict(Tail(s), S)
    ELSE Restrict(Tail(s), S)

(***************************************************************************)
(* C2 (as claimed).  Fusion additivity: an id present in both lists, with  *)
(* a text score st and an image score si, has textScore st, imageScore si  *)
(* and combinedScore exactly st*textWeight + si*imageWeight.  Stated for   *)
(* non-negative weights, and for any of the scores the id carries in a     *)
(* list that repeats it.                                                   *)
(***************************************************************************)
C2_Additivity ==
    (Fused /\ ValidWeights) =>
        \A id \in IdsOf(text_results) \cap IdsOf(image_results) :
            \E st \in ScoresOf(text_results, id),
               si \in ScoresOf(image_results, id) :
                LET e == EntryFor(merged, id) IN
                /\ e.text_score = st
                /\ e.image_score = si
                /\ e.combined_score = st * text_weight + si * image_weight

(***************************************************************************)
(* C3.  Fusion completeness: every id of either list has exactly one       *)
(* entry in the mapping built before sorting; an id only one list has      *)
(* keeps score 0 for the other modality, whatever the weights (zero        *)
(* included).                                                              *)
(***************************************************************************)
C3_Completeness ==
    Fused =>
        /\ IdsOf(merged) = AllIds
        /\ \A id \in AllIds :
            /\ Cardinality(EntriesFor(merged, id)) = 1
            /\ id \notin IdsOf(image_results) =>
                   /\ EntryFor(merged, id).image_score = 0
                   /\ EntryFor(merged, id).text_score \in ScoresOf(text_results, id)
            /\ id \notin IdsOf(text_results) =>
                   /\ EntryFor(merged, id).text_score = 0
                   /\ EntryFor(merged, id).image_score \in ScoresOf(image_results, id)

\* An id only the image list has is kept although the image weight is 0.
C3_Witness ==
    /\ Fused
    /\ image_weight = 0
    /\ \E id \in IdsOf(image_results) \ IdsOf(text_results) :
           EntryFor(merged, id).text_score = 0
    /\ \E id \in IdsOf(text_results) \ IdsOf(image_results) :
           EntryFor(merged, id).image_score = 0

(***************************************************************************)
(* C4.  The returned list is ordered by combinedScore descending, and      *)
(* entries of equal combinedScore keep the order of first insertion into   *)
(* the mapping: text-pass entries before image-only entries, each in its   *)
(* list's order.                                                           *)
(***************************************************************************)
C4_StableOrder ==
    Fused =>
        /\ \A i, j \in 1..Len(merged) :
               i < j => InsertionRank(merged[i].id) < InsertionRank(merged[j].id)
        /\ \A i, j \in 1..Len(sorted_results) :
               i < j =>
                   \/ sorted_results[i].combined_score > sorted_results[j].combined_score
                   \/ /\ sorted_results[i].combined_score = sorted_results[j].combined_score
                      /\ InsertionRank(sorted_results[i].id)
                             < InsertionRank(sorted_results[j].id)

\* A text entry and an image-only entry tie on a non-zero combined score.
C4_Witness ==
    /\ Fused
    /\ Len(sorted_results) >= 2
    /\ sorted_results[1].attrs = "text"
    /\ sorted_results[2].attrs = "image"
    /\ sorted_results[1].combined_score = sorted_results[2].combined_score
    /\ sorted_results[1].combined_score > 0

(***************************************************************************)
(* C5.  Truncation: the returned list has exactly                          *)
(* min(k, number of distinct ids of both lists) entries, for every k >= 0; *)
(* k = 0 and two empty lists give the empty list, without an error.        *)
(***************************************************************************)
C5_Truncation ==
    (Fused /\ top_k >= 0) =>
        /\ Len(sorted_results) = Min(top_k, Cardinality(AllIds))
        /\ top_k = 0 => sorted_results = <<>>
        /\ (text_results = <<>> /\ image_results = <<>>) => sorted_results = <<>>
        /\ raised = NoException

\* k cuts a longer ranking short.
C5_Witness ==
    /\ Fused
    /\ top_k > 0
    /\ top_k < Cardinality(AllIds)
    /\ Len(sorted_results) = top_k

(***************************************************************************)
(* C6 (as claimed).  A negative textWeight or imageWeight makes the        *)
(* fusion fail with InvalidWeightError and return no ranked list.          *)
(***************************************************************************)
C6_NegativeWeightRejected ==
    (Fused /\ (text_weight < 0 \/ image_weight < 0)) =>
        /\ raised[1] = "InvalidWeightError"
        /\ sorted_results = <<>>

(***************************************************************************)
(* C7 (as claimed).  Overwrite semantics: when an id occurs more than once *)
(* in one list, only its last occurrence counts, for that modality's score *)
(* and for that modality's contribution to combinedScore, in the text pass *)
(* and in the image pass alike.  Stated for non-negative weights.          *)
(***************************************************************************)
C7_LastSeenWins ==
    (Fused /\ ValidWeights) =>
        \A id \in AllIds :
            LET e == EntryFor(merged, id) IN
            /\ e.text_score = LastScore(text_results, id)
            /\ e.image_score = LastScore(image_results, id)
            /\ e.combined_score =
                   LastScore(text_results, id) * text_weight
                   + LastScore(image_results, id) * image_weight

(***************************************************************************)
(* C8.  Zero-weight neutrality: with imageWeight = 0 the returned ranking, *)
(* restricted to the ids of the text list, is in the order of the          *)
(* text-only ranking (and is its first k ids when textWeight >= 0), and    *)
(* the combinedScore of those ids is the weighted text score, whatever the *)
(* image scores.                                                           *)
(***************************************************************************)
C8_ZeroWeightNeutral ==
    (Fused /\ image_weight = 0) =>
        LET textOnly == RankingOf(text_results, text_weight)
            kept == Restrict(IdSeq(sorted_results), IdsOf(text_results))
        IN
        /\ IsPrefix(kept, textOnly)
        /\ text_weight >= 0 => kept = Prefix(textOnly, top_k)
        /\ \A id \in IdsOf(text_results) :
               EntryFor(merged, id).combined_score =
                   LastScore(text_results, id) * text_weight

\* The image list scores an id of the text list and brings one of its own.
C8_Witness ==
    /\ Fused
    /\ image_weight = 0
    /\ text_weight > 0
    /\ IdsOf(text_results) \cap IdsOf(image_results) # {}
    /\ IdsOf(image_results) \ IdsOf(text_results) # {}
    /\ Len(sorted_results) >= 2

(***************************************************************************)
(* C9 (as claimed).  Text [1: 0.9, 2: 0.4], image [2: 0.8, 3: 0.95],       *)
(* weights (0.7, 0.3), k = 3: combined scores 0.63, 0.52, 0.285 for ids    *)
(* 1, 2, 3, returned in the order [1, 3, 2].                               *)
(***************************************************************************)
IsScenario(sc) ==
    /\ text_results = sc.text
    /\ image_results = sc.image
    /\ text_weight = sc.tw
    /\ image_weight = sc.iw
    /\ top_k = sc.k

Scenario9Scores ==
    /\ EntryFor(merged, 1).combined_score = 630
    /\ EntryFor(merged, 2).combined_score = 520
    /\ EntryFor(merged, 3).combined_score = 285

C9_Original ==
    (Fused /\ IsScenario(Scenario9)) =>
        /\ Scenario9Scores
        /\ IdSeq(sorted_results) = <<1, 3, 2>>

(***************************************************************************)
(* C9 (amended).  Same inputs, same combined scores 0.63, 0.52, 0.285;     *)
(* the ids are returned by combined score descending: [1, 2, 3].           *)
(***************************************************************************)
C9_Amended ==
    (Fused /\ IsScenario(Scenario9)) =>
        /\ Scenario9Scores
        /\ IdSeq(sorted_results) = <<1, 2, 3>>
        /\ [i \in 1..3 |-> sorted_results[i].combined_score] = <<630, 520, 285>>

C9_Witness == Fused /\ IsScenario(Scenario9) /\ Len(sorted_results) = 3

(***************************************************************************)
(* C10 (as claimed).  One list empty, the other not: the returned list is  *)
(* the other list's own weighted ranking cut to k, each entry's            *)
(* combinedScore is its score times that modality's weight, and the empty  *)
(* modality's score is 0.  Empty text, image [5: 0.5], weights (0.7, 0.3), *)
(* k = 1 gives [5: 0.15].  Stated for non-negative weights.                *)
(***************************************************************************)
C10_SingleModality ==
    /\ (Fused /\ ValidWeights /\ text_results = <<>> /\ image_results # <<>>) =>
           /\ IdSeq(sorted_results)
                  = Prefix(RankingOf(image_results, image_weight), top_k)
           /\ \A i \in 1..Len(sorted_results) :
                  /\ sorted_results[i].text_score = 0
                  /\ sorted_results[i].image_score
                         = LastScore(image_results, sorted_results[i].id)
                  /\ sorted_results[i].combined_score
                         = sorted_results[i].image_score * image_weight
    /\ (Fused /\ ValidWeights /\ image_results = <<>> /\ text_results # <<>>) =>
           /\ IdSeq(sorted_results)
                  = Prefix(RankingOf(text_results, text_weight), top_k)
           /\ \A i \in 1..Len(sorted_results) :
                  /\ sorted_results[i].image_score = 0
                  /\ sorted_results[i].text_score
                         = LastScore(text_results, sorted_results[i].id)
                  /\ sorted_results[i].combined_score
                         = sorted_results[i].text_score * text_weight
    /\ (Fused /\ IsScenario(Scenario10)) =>
           /\ IdSeq(sorted_results) = <<5>>
           /\ sorted_results[1].combined_score = 150

(***************************************************************************)
(* C1.  insert_data of either DAO, given a batch with a record that lacks  *)
(* a required field or carries a description or image vector of the wrong  *)
(* length, fails and writes no record of the batch, the valid records      *)
(* before the invalid one included: every collection holds after the call  *)
(* the rows it held before it.                                             *)
(***************************************************************************)
RequiredOf(d) ==
    IF d = "BaiChayTourismDAO"
    THEN {"id", "name", "type", "description", "description_vector"}
    ELSE {"id", "location", "type", "description", "image_url", "price",
          "image_vector", "description_vector"}

InvalidItem(d, item) ==
    \/ ~(RequiredOf(d) \subseteq item.keys)
    \/ "description_vector" \in item.keys /\ item.dvlen # 768
    \/ /\ d = "TourismMultimodalDAO"
       /\ "image_vector" \in item.keys
       /\ item.ivlen # 512

HasInvalid(d, items) == \E i \in 1..Len(items) : InvalidItem(d, items[i])

C1_AllOrNothing ==
    [][(op = "call" /\ op' = "insert_data" /\ HasInvalid(dao, data)) =>
           /\ raised'[1] = "AssertionError"
           /\ ret' = <<>>
           /\ collection' = collection
           /\ text_collection' = text_collection
           /\ image_collection' = image_collection
           /\ Len(collection'.rows) = Len(collection.rows)
           /\ Len(text_collection'.rows) = Len(text_collection.rows)
           /\ Len(image_collection'.rows) = Len(image_collection.rows)]_vars

\* A batch whose first record is valid and whose second lacks
\* description_vector has been rejected, on a collection that held a row.
C1_Witness ==
    /\ op = "insert_data"
    /\ dao = "BaiChayTourismDAO"
    /\ Len(data) = 2
    /\ ~InvalidItem(dao, data[1])
    /\ "description_vector" \notin data[2].keys
    /\ raised = <<"AssertionError", "description_vector">>
    /\ Len(collection.rows) = 1
    /\ store_fail = "none"

(***************************************************************************)
(* C11 (as claimed).  insert_data rejects the whole batch and writes       *)
(* nothing when a record has priceMin > priceMax or a rating outside       *)
(* [0, 5].                                                                 *)
(***************************************************************************)
BadPriceOrRating(item) ==
    \/ item.price_min > item.price_max
    \/ item.rating < 0
    \/ item.rating > 5

C11_PriceAndRatingRejected ==
    [][(op = "call" /\ op' = "insert_data"
        /\ \E i \in 1..Len(data) : BadPriceOrRating(data[i])) =>
           /\ raised' # NoException
           /\ ret' = <<>>
           /\ collection' = collection]_vars

(***************************************************************************)
(* C12.  A successful insert_data has written the batch to each of its     *)
(* collections and then flushed it, before returning: the rows are the     *)
(* rows held before followed by the batch's ids, none of them unflushed,   *)
(* and the value returned is the batch's ids in input order.  A call that  *)
(* raises returns nothing.                                                 *)
(***************************************************************************)
BatchIds == [i \in 1..Len(data) |-> data[i].id]
WrittenThenFlushed(before, after) ==
    /\ after.rows = before.rows \o BatchIds
    /\ after.flushed = Len(after.rows)

C12_WriteFlushReturn ==
    [][(op = "call" /\ op' = "insert_data") =>
           /\ raised' # NoException => ret' = <<>>
           /\ (raised' = NoException /\ dao = "BaiChayTourismDAO") =>
                  /\ WrittenThenFlushed(collection, collection')
                  /\ ret' = BatchIds
           /\ (raised' = NoException /\ dao = "TourismMultimodalDAO") =>
                  /\ WrittenThenFlushed(text_collection, text_collection')
                  /\ WrittenThenFlushed(image_collection, image_collection')
                  /\ ret' = <<BatchIds, BatchIds>>]_vars

\* A batch of two different ids has been inserted behind a row already held.
C12_Witness ==
    /\ op = "insert_data"
    /\ raised = NoException
    /\ dao = "TourismMultimodalDAO"
    /\ Len(data) = 2
    /\ data[1].id # data[2].id
    /\ ret = <<BatchIds, BatchIds>>
    /\ Len(text_collection.rows) = 3
    /\ text_collection.flushed = 3
    /\ image_collection.flushed = 3

(***************************************************************************)
(* C17 (as claimed).  After any TourismMultimodalDAO.insert_data call,     *)
(* successful or failing, the ids persisted in the text collection are the *)
(* ids persisted in the image collection.                                  *)
(***************************************************************************)
Persisted(c) == {c.rows[i] : i \in 1..c.flushed}

C17_SameIdsInBothCollections ==
    Persisted(text_collection) = Persisted(image_collection)

(***************************************************************************)
(* C13 (as claimed).  Every hit of a search gets the score                 *)
(* 1 / (1 + distance): for a distance of 0 or more it lies in (0, 1], it   *)
(* is exactly 1 at distance 0, a smaller distance never gives a smaller    *)
(* score, and the computation never divides by zero for a distance the     *)
(* store can report for the metric of the field (COSINE for the text       *)
(* search, L2 for the image search).                                       *)
(***************************************************************************)
ScoredAs(results, found) ==
    /\ Len(results) = Len(found)
    /\ \A i \in 1..Len(found) :
           /\ results[i].id = found[i].id
           /\ results[i].score * (1 + found[i].distance) = ScoreUnit
           /\ found[i].distance >= 0 =>
                  (results[i].score > 0 /\ results[i].score <= ScoreUnit)
           /\ found[i].distance = 0 => results[i].score = ScoreUnit
    /\ \A i, j \in 1..Len(found) :
           found[i].distance <= found[j].distance =>
               results[i].score >= results[j].score

C13_ScoreNormalization ==
    /\ op = "search_by_description" =>
           /\ raised # ZeroDivisionError
           /\ ScoredAs(text_results,
                       StoreSearch(text_hits, TextRequest(top_k, filters)))
    /\ op = "search_by_image" =>
           /\ raised # ZeroDivisionError
           /\ ScoredAs(image_results,
                       StoreSearch(image_hits, ImageRequest(top_k, filters)))

(***************************************************************************)
(* C14.  hybrid_search with final size top_k asks the text search and then *)
(* the image search for 2 * top_k hits each, more than top_k, both with    *)
(* the caller's filters, and merges only once both lists are there: a call *)
(* that returns has made exactly these two requests and merged exactly the *)
(* two lists they gave, a call that raises has merged nothing.  So every   *)
(* id ranked after position top_k and up to position 2 * top_k by one      *)
(* modality is an entry of the merge.                                      *)
(***************************************************************************)
Satisfying(hits) == SelectSeq(hits, LAMBDA h : Matches(filters, h))
SecondHalf(hits) ==
    {Satisfying(hits)[i].id :
        i \in (top_k + 1)..Min(2 * top_k, Len(Satisfying(hits)))}
AsksTwiceTopK(req, coll) ==
    /\ req.collection = coll
    /\ req.limit = 2 * top_k
    /\ req.limit > top_k
    /\ req.expr = filters

C14_TwiceTopKCandidates ==
    op = "hybrid_search" =>
        /\ Len(requests) \in {1, 2}
        /\ AsksTwiceTopK(requests[1], "text_collection")
        /\ Len(requests) = 2 => AsksTwiceTopK(requests[2], "image_collection")
        /\ raised # NoException => merged = <<>> /\ sorted_results = <<>>
        /\ raised = NoException =>
               /\ Len(requests) = 2
               /\ IdSeq(text_results) =
                      IdSeq(SubSeq(Satisfying(text_hits), 1,
                                   Len(text_results)))
               /\ IdSeq(image_results) =
                      IdSeq(SubSeq(Satisfying(image_hits), 1,
                                   Len(image_results)))
               /\ Len(text_results) =
                      Min(2 * top_k, Len(Satisfying(text_hits)))
               /\ Len(image_results) =
                      Min(2 * top_k, Len(Satisfying(image_hits)))
               /\ merged = Merge(text_results, image_results, text_weight,
                                 image_weight)
               /\ SecondHalf(text_hits) \cup SecondHalf(image_hits)
                      \subseteq IdsOf(merged)

\* The id the text search ranks second, behind another id, is the one
\* result of a hybrid_search with top_k = 1 under a filter.
C14_Witness ==
    /\ op = "hybrid_search"
    /\ raised = NoException
    /\ top_k = 1
    /\ filters # "None"
    /\ Len(text_results) = 2
    /\ text_results[1].id # text_results[2].id
    /\ Len(sorted_results) = 1
    /\ sorted_results[1].id = text_results[2].id
    /\ sorted_results[1].id \in SecondHalf(text_hits)

(***************************************************************************)
(* C15.  In main, an exception of the crawl, the insert or the backup of   *)
(* one category is caught and the loop goes on: whatever fails, every step *)
(* of the loop enters the next category of CATEGORIES_TO_CRAWL and leaves  *)
(* main in the loop or at the statistics step, the statistics step is      *)
(* only reached with all six categories entered once each in list order,   *)
(* and a run that has entered the loop reaches the statistics step.        *)
(***************************************************************************)
C15_LoopSurvivesFailures ==
    /\ [][pc = "loop" =>
             /\ pc' \in {"loop", "statistics"}
             /\ Len(attempted) < Len(CATEGORIES_TO_CRAWL)
             /\ attempted' =
                    Append(attempted, CATEGORIES_TO_CRAWL[Len(attempted) + 1])]_vars
    /\ [](pc \in {"loop", "statistics", "done"} =>
             /\ Len(attempted) <= Len(CATEGORIES_TO_CRAWL)
             /\ attempted = SubSeq(CATEGORIES_TO_CRAWL, 1, Len(attempted)))
    /\ [](pc \in {"statistics", "done"} => attempted = CATEGORIES_TO_CRAWL)
    /\ (pc = "loop" ~> pc = "statistics")

\* The statistics step is reached after a run in which an insert failed
\* after ids were assigned, another insert went through, and the last
\* category failed.
C15_Witness ==
    /\ pc = "statistics"
    /\ attempted = CATEGORIES_TO_CRAWL
    /\ raised # NoException
    /\ total_inserted > 0
    /\ id_counter - 1 > total_inserted

(***************************************************************************)
(* C16 (as claimed).  No id the driver gives to an item has been given to  *)
(* an item earlier in the same run, and none is the id of a record an      *)
(* earlier run has persisted.                                              *)
(***************************************************************************)
C16_IdsUniqueAcrossRuns ==
    [][(pc = "loop" /\ Len(assigned') > Len(assigned)) =>
           \A k \in (Len(assigned) + 1)..Len(assigned') :
               /\ \A j \in 1..(k - 1) : assigned'[j] # assigned'[k]
               /\ assigned'[k] \notin Persisted(collection)]_vars

(***************************************************************************)
(* C18 (as claimed).  Every store operation issued through a DAO instance  *)
(* runs on a live connection against the DATABASE_NAME of the instance's   *)
(* class, in whatever order instances of the two classes are constructed   *)
(* and used.                                                               *)
(***************************************************************************)
C18_OwnDatabase ==
    last_op.instance # 0 =>
        /\ last_op.live
        /\ last_op.db = DATABASE_NAME(last_op.class)

====
